---- MODULE Spec2Model ----
(***************************************************************************)
(* Model of core_lang/src/semantic_analysis/ast_node/impl_trait.rs:        *)
(* implementation_of_trait (the conformance checker) and                   *)
(* type_check_trait_implementation (the signature matcher).                *)
(*                                                                         *)
(* One behaviour is the processing of one `impl Trait for Type` block.     *)
(* The block, the answer of namespace.get_call_path and the answers of the *)
(* body checker are inputs fixed in the initial state; the actions are the *)
(* arms of the match on the lookup, one iteration of the loop over the     *)
(* provided functions, the tail of the matcher, and the two ways the       *)
(* orchestrator continues after the matcher returned.                      *)
(***************************************************************************)
EXTENDS Integers, Sequences, FiniteSets, TLC

\* Bounds of the explored inputs.
MaxFns == 3
MaxSurface == 3

VARIABLES
    impl_trait,             \* the destructured ImplTrait block
    type_implementing_for,  \* result of namespace.resolve_type_without_self
    lookup,                 \* result of namespace.get_call_path(&trait_name)
    checked,                \* result of TypedFunctionDeclaration::type_check per function
    pc,                     \* position in implementation_of_trait / the matcher
    errors,                 \* implementation_of_trait's errors
    warnings,               \* implementation_of_trait's warnings
    mode,                   \* Mode passed to the matcher
    type_arguments,         \* the matcher's type_arguments parameter
    fi,                     \* index of the next provided function of the loop
    functions_buf,          \* the matcher's output buffer
    function_checklist,     \* required names not yet implemented
    m_errors,               \* the matcher's errors
    m_warnings,             \* the matcher's warnings
    trait_impls,            \* calls of namespace.insert_trait_implementation
    result                  \* what implementation_of_trait returned

vars == <<impl_trait, type_implementing_for, lookup, checked, pc, errors, warnings,
          mode, type_arguments, fi, functions_buf, function_checklist,
          m_errors, m_warnings, trait_impls, result>>

-----------------------------------------------------------------------------
\* Types: MaybeResolvedType is a record, ResolvedType is its name.

Resolved(r) == [tag |-> "Resolved", name |-> r]

SelfType == [tag |-> "SelfType", name |-> "Self"]

Generic(n) == [tag |-> "Generic", name |-> n]

IsGeneric(t) == t.tag = "Generic"

friendly_type_str(t) == t.name

\* force_resolution(self_type, span): a resolved type is itself, Self is the
\* implementing type when that is resolved, anything else cannot be resolved.
force_resolution(t, st, span) ==
    IF t.tag = "Resolved" THEN [ok |-> TRUE, value |-> t.name, errors |-> <<>>]
    ELSE IF t.tag = "SelfType" /\ st.tag = "Resolved"
        THEN [ok |-> TRUE, value |-> st.name, errors |-> <<>>]
    ELSE [ok |-> FALSE, value |-> "",
          errors |-> <<[kind |-> "TypeMustBeKnown", name |-> friendly_type_str(t),
                        span |-> span, given |-> 0, expected |-> 0,
                        given_ty |-> "", expected_ty |-> "", missing |-> <<>>]>>]

\* replace_self_types: Self in a method's parameters and return type becomes
\* the implementing type.
SubstSelf(t, st) == IF t.tag = "SelfType" THEN st ELSE t

replace_self_types(f, st) ==
    [f EXCEPT !.parameters = [i \in 1..Len(f.parameters) |-> SubstSelf(f.parameters[i], st)],
              !.return_type = SubstSelf(f.return_type, st)]

-----------------------------------------------------------------------------
\* Diagnostics. Every CompileError is a record of the same shape; a span is
\* <<function index, parameter position>> (0 where there is none).

NoSpan == <<0, 0>>

CompileError(kind, name) ==
    [kind |-> kind, name |-> name, span |-> NoSpan, given |-> 0, expected |-> 0,
     given_ty |-> "", expected_ty |-> "", missing |-> <<>>]

IncorrectNumberOfTypeArguments(given, expected) ==
    [CompileError("IncorrectNumberOfTypeArguments", "")
        EXCEPT !.given = given, !.expected = expected]

ImplAbiForNonContract(ty) ==
    [CompileError("ImplAbiForNonContract", "") EXCEPT !.given_ty = ty]

NotATrait(name) == CompileError("NotATrait", name)

UnknownTrait(name) == CompileError("UnknownTrait", name)

FunctionNotAPartOfInterfaceSurface(f) ==
    [CompileError("FunctionNotAPartOfInterfaceSurface", f.name) EXCEPT !.span = <<f.ix, 0>>]

IncorrectNumberOfInterfaceSurfaceFunctionParameters(f, num_args) ==
    [CompileError("IncorrectNumberOfInterfaceSurfaceFunctionParameters", f.name)
        EXCEPT !.span = <<f.ix, 0>>, !.expected = num_args, !.given = Len(f.parameters)]

MismatchedTypeInTrait(span, given, expected) ==
    [CompileError("MismatchedTypeInTrait", "")
        EXCEPT !.span = span, !.given_ty = given, !.expected_ty = expected]

\* missing_functions: the names of the checklist joined by "\n", kept as the
\* sequence of the joined names.
MissingInterfaceSurfaceMethods(checklist) ==
    [CompileError("MissingInterfaceSurfaceMethods", "") EXCEPT !.missing = checklist]

\* n diagnostics of an external step (the lookup, the body check of function ix).
Diags(kind, ix, n) == [k \in 1..n |-> [CompileError(kind, "") EXCEPT !.span = <<ix, k>>]]

OfKind(es, kind) == SelectSeq(es, LAMBDA e : e.kind = kind)

-----------------------------------------------------------------------------
\* Declarations returned by implementation_of_trait.

ERROR_RECOVERY_DECLARATION ==
    [tag |-> "ErrorRecovery", trait_name |-> "", methods |-> <<>>,
     type_implementing_for |-> Resolved("ErrorRecovery")]

ImplTraitDecl(trait_name, methods, ty) ==
    [tag |-> "ImplTrait", trait_name |-> trait_name, methods |-> methods,
     type_implementing_for |-> ty]

NoDeclaration ==
    [tag |-> "None", trait_name |-> "", methods |-> <<>>,
     type_implementing_for |-> Resolved("ErrorRecovery")]

-----------------------------------------------------------------------------
\* The signature matcher's pure steps (type_check_trait_implementation).

Names(surface) == [i \in 1..Len(surface) |-> surface[i].name]

\* interface_surface.iter().map(|TypedTraitFn { name, .. }| name).collect()
InitialChecklist(surface) == Names(surface)

\* function_checklist.iter().position(|name| **name == fn_decl.name); 0 is None.
RECURSIVE PositionFrom(_, _, _)
PositionFrom(list, name, i) ==
    IF i > Len(list) THEN 0
    ELSE IF list[i] = name THEN i
    ELSE PositionFrom(list, name, i + 1)

\* A lookup that finds the last entry equal to the name.
position_last(list, name) ==
    IF \E k \in 1..Len(list) : list[k] = name
    THEN CHOOSE k \in 1..Len(list) :
            list[k] = name /\ \A h \in (k + 1)..Len(list) : list[h] # name
    ELSE 0

position(list, name) == PositionFrom(list, name, 1)

\* A removal that drops the last entry whatever the index found.
remove_last(list, ix) == SubSeq(list, 1, Len(list) - 1)

\* function_checklist.remove(ix)
remove(list, ix) == SubSeq(list, 1, ix - 1) \o SubSeq(list, ix + 1, Len(list))

\* fn_decl.type_parameters.append(&mut type_arguments.to_vec())
MergeTypeParameters(f, targs) == [f EXCEPT !.type_parameters = @ \o targs]

\* The closure over one zipped pair of parameters. The zip is
\* parameters.iter().zip(fn_decl.parameters.iter()), so the closure's
\* `fn_decl_param` is the REQUIRED parameter (req) and its `trait_param` is the
\* PROVIDED one (prov). The result is the closure's local error list.
ParamErrors(req, prov, st, ix, pos) ==
    IF IsGeneric(req)
    THEN IF IsGeneric(prov) THEN <<>>
         ELSE <<MismatchedTypeInTrait(<<ix, pos>>, friendly_type_str(prov),
                                      friendly_type_str(req))>>
    ELSE LET r1 == force_resolution(req, st, <<0, pos>>)
             r2 == force_resolution(prov, st, <<0, pos>>)
         IN  IF ~r1.ok THEN r1.errors
             ELSE IF ~r2.ok THEN r1.errors \o r2.errors
             ELSE r1.errors \o r2.errors \o
                  (IF r1.value # r2.value
                   THEN <<MismatchedTypeInTrait(<<ix, pos>>, friendly_type_str(prov),
                                                friendly_type_str(req))>>
                   ELSE <<>>)

\* find_map over the zipped parameters: the errors of the first pair that has
\* any, <<>> when no pair has (None).
RECURSIVE ZipErrors(_, _, _, _, _)
ZipErrors(reqs, provs, st, ix, pos) ==
    IF pos > Len(reqs) \/ pos > Len(provs) THEN <<>>
    ELSE LET e == ParamErrors(reqs[pos], provs[pos], st, ix, pos)
         IN  IF e # <<>> THEN e ELSE ZipErrors(reqs, provs, st, ix, pos + 1)

\* The required return type, resolved; ResolvedType::ErrorRecovery on failure.
ReturnResolution(sig, st) ==
    LET r == force_resolution(sig.return_type, st, <<0, 0>>)
    IN  [value |-> IF r.ok THEN r.value ELSE "ErrorRecovery", errors |-> r.errors]

ReturnErrors(sig, f, st) ==
    LET r == ReturnResolution(sig, st)
    IN  r.errors \o
        (IF f.return_type # Resolved(r.value)
         THEN <<MismatchedTypeInTrait(<<f.ix, 0>>, friendly_type_str(f.return_type), r.value)>>
         ELSE <<>>)

\* The shadowing `let mut errors = vec![]` of the closure over one required
\* signature of the function's name: parameter errors, then return errors.
SignatureErrors(sig, f, st) ==
    ZipErrors(sig.parameters, f.parameters, st, f.ix, 1) \o ReturnErrors(sig, f, st)

\* The count check of that closure: its error goes to the matcher's own list.
CountErrors(sig, f) ==
    IF Len(f.parameters) # Len(sig.parameters)
    THEN <<IncorrectNumberOfInterfaceSurfaceFunctionParameters(f, Len(sig.parameters))>>
    ELSE <<>>

\* interface_surface.iter().find_map(closure): every signature of the
\* function's name is visited until one yields Some(errors). pushed are the
\* count errors pushed on the way, l_e the errors of Some (<<>> for None).
RECURSIVE FindMapFrom(_, _, _, _)
FindMapFrom(surface, f, st, i) ==
    IF i > Len(surface) THEN [pushed |-> <<>>, l_e |-> <<>>]
    ELSE IF surface[i].name # f.name THEN FindMapFrom(surface, f, st, i + 1)
    ELSE LET cnt == CountErrors(surface[i], f)
             loc == SignatureErrors(surface[i], f, st)
         IN  IF loc # <<>> THEN [pushed |-> cnt, l_e |-> loc]
             ELSE LET rest == FindMapFrom(surface, f, st, i + 1)
                  IN  [pushed |-> cnt \o rest.pushed, l_e |-> rest.l_e]

CrossValidate(surface, f, st) == FindMapFrom(surface, f, st, 1)

\* if let Some(l_e) = ... { errors.append(l_e); continue }
Dropped(v) == v.l_e # <<>>

\* An append that skips the default methods a provided function of the
\* output already implements.
AppendUnimplementedDefaults(buf, methods, ty) ==
    buf \o [j \in 1..Len(SelectSeq(methods,
                                    LAMBDA d : \A h \in 1..Len(buf) : buf[h].name # d.name))
              |-> replace_self_types(
                     SelectSeq(methods,
                               LAMBDA d : \A h \in 1..Len(buf) : buf[h].name # d.name)[j],
                     ty)]

\* An append that pushes the default methods as the interface declares them.
AppendDefaultsAsDeclared(buf, methods, ty) == buf \o methods

\* for function in methods { functions_buf.push(function.replace_self_types(..)) }
AppendDefaults(buf, methods, ty) ==
    buf \o [j \in 1..Len(methods) |-> replace_self_types(methods[j], ty)]

\* A marking that skips the interface's default methods.
MarkProvidedOnly(buf, m) ==
    IF m = "ImplAbiFn"
    THEN [j \in 1..Len(buf) |->
            IF buf[j].origin = "impl" THEN [buf[j] EXCEPT !.is_contract_call = TRUE]
            ELSE buf[j]]
    ELSE buf

\* for fn_decl in functions_buf.iter_mut() { match mode { ImplAbiFn => .. = true } }
MarkContractCalls(buf, m) ==
    IF m = "ImplAbiFn"
    THEN [j \in 1..Len(buf) |-> [buf[j] EXCEPT !.is_contract_call = TRUE]]
    ELSE buf

\* A checklist check that pushes one error per missing name.
ChecklistErrorsPerName(checklist) ==
    [k \in 1..Len(checklist) |-> MissingInterfaceSurfaceMethods(<<checklist[k]>>)]

\* if !function_checklist.is_empty() { errors.push(MissingInterfaceSurfaceMethods) }
ChecklistErrors(checklist) ==
    IF checklist # <<>> THEN <<MissingInterfaceSurfaceMethods(checklist)>> ELSE <<>>

-----------------------------------------------------------------------------
\* The conformance checker's pure steps (implementation_of_trait).

\* if type_arguments.len() != tr.type_parameters.len() { errors.push(..) }
ArityErrors(targs, tparams) ==
    IF Len(targs) # Len(tparams)
    THEN <<IncorrectNumberOfTypeArguments(Len(targs), Len(tparams))>>
    ELSE <<>>

\* if type_implementing_for != Resolved(Contract) { errors.push(..) }
AbiErrors(ty) ==
    IF ty # Resolved("Contract")
    THEN <<ImplAbiForNonContract(friendly_type_str(ty))>>
    ELSE <<>>

\* A call that hands the matcher the block's supplied type arguments.
SuppliedTypeArguments(tr, block) == block.type_arguments

\* The type_arguments argument of the matcher: &tr.type_parameters for a
\* trait, &[] for an ABI.
TraitTypeArguments(tr, block) == tr.type_parameters

AbiTypeArguments(abi, block) == <<>>

\* let self_type = type_implementing_for.clone()
self_type == type_implementing_for

\* A registration that leaves out the interface's default methods.
RegistrationOfProvided(trait_name, ty, buf) ==
    [trait_name |-> trait_name, ty |-> ty,
     methods |-> SelectSeq(buf, LAMBDA f : f.origin = "impl")]

\* namespace.insert_trait_implementation(trait_name.clone(), self_type, functions_buf.clone())
Registration(trait_name, ty, buf) == [trait_name |-> trait_name, ty |-> ty, methods |-> buf]

-----------------------------------------------------------------------------
\* Inputs.

U64 == Resolved("u64")

Bool == Resolved("bool")

Contract == Resolved("Contract")

\* A required signature (TypedTraitFn).
TypedTraitFn(name, parameters, return_type) ==
    [name |-> name, parameters |-> parameters, return_type |-> return_type]

\* A typed function (TypedFunctionDeclaration); origin and ix say where it
\* comes from: the ix-th function of the block or the ix-th default method.
TypedFunctionDeclaration(name, parameters, return_type, tps, flag, origin) ==
    [name |-> name, parameters |-> parameters, return_type |-> return_type,
     type_parameters |-> tps, is_contract_call |-> flag, origin |-> origin, ix |-> 0]

\* An answer of the body checker: Ok or Err, with n warnings and n errors.
\* An Err carries no typed function; its value keeps only the name of the
\* function declaration that was handed to the body checker.
BodyOk(f, n) == [ok |-> TRUE, value |-> f, diag |-> n]

BodyErr(name, n) ==
    [ok |-> FALSE, value |-> TypedFunctionDeclaration(name, <<>>, U64, <<>>, FALSE, "impl"),
     diag |-> n]

RECURSIVE SeqsOfLen(_, _)
SeqsOfLen(S, n) ==
    IF n = 0 THEN {<<>>}
    ELSE {Append(s, x) : s \in SeqsOfLen(S, n - 1), x \in S}

SeqsUpTo(S, n) == UNION {SeqsOfLen(S, k) : k \in 0..n}

Numbered(fs) == [j \in 1..Len(fs) |-> [fs[j] EXCEPT !.ix = j]]

CheckedOf(rs) ==
    [i \in 1..Len(rs) |->
        [ok |-> rs[i].ok, value |-> [rs[i].value EXCEPT !.ix = i],
         warnings |-> Diags("BodyWarning", i, rs[i].diag),
         errors |-> Diags("BodyError", i, rs[i].diag)]]

NoInterface ==
    [name |-> "", interface_surface |-> <<>>, methods |-> <<>>, type_parameters |-> <<>>]

IsInterface(kind) == kind \in {"TraitDeclaration", "AbiDeclaration"}

\* One family of inputs: every block, lookup answer and body-check answer
\* built from the given sets.
Input(kinds, selfs, targs, tparams, ldiags, sigs, maxSurface, results, maxFns, defaults) ==
    \E kind \in kinds, st \in selfs, ta \in targs, ld \in ldiags :
    \E tp \in (IF kind = "TraitDeclaration" THEN tparams ELSE {<<>>}) :
    \E surf \in (IF IsInterface(kind) THEN SeqsUpTo(sigs, maxSurface) ELSE {<<>>}) :
    \E ms \in (IF IsInterface(kind) THEN defaults ELSE {<<>>}) :
    \E rs \in SeqsUpTo(results, maxFns) :
        /\ impl_trait = [trait_name |-> "Foo", type_arguments |-> ta,
                         functions |-> [i \in 1..Len(rs) |-> [name |-> rs[i].value.name]]]
        /\ type_implementing_for = st
        /\ lookup = [tag |-> kind,
                     decl |-> IF IsInterface(kind)
                              THEN [name |-> "Foo", interface_surface |-> surf,
                                    methods |-> Numbered(ms), type_parameters |-> tp]
                              ELSE NoInterface,
                     warnings |-> Diags("LookupWarning", 0, ld),
                     errors |-> Diags("LookupError", 0, ld)]
        /\ checked = CheckedOf(rs)

Nullary(name, flag) == TypedFunctionDeclaration(name, <<>>, U64, <<>>, flag, "impl")

DefaultMethod(name, flag) ==
    TypedFunctionDeclaration(name, <<SelfType>>, SelfType, <<>>, flag, "trait")

\* Blocks that vary the lookup, the type arguments, the implementing type,
\* the diagnostics and the contract-call flags.
OrchestratorInputs ==
    Input({"TraitDeclaration", "AbiDeclaration", "Other", "Err"},
          {Contract, U64},
          {<<>>, <<"A">>},
          {<<>>, <<"P">>, <<"P", "Q">>},
          {0, 1},
          {TypedTraitFn("a", <<>>, U64)}, 1,
          {BodyOk([Nullary("a", FALSE) EXCEPT !.type_parameters = <<"F">>], 1),
           BodyOk(Nullary("c", FALSE), 0),
           BodyErr("a", 1)}, MaxFns,
          {<<>>, <<DefaultMethod("d", FALSE)>>, <<DefaultMethod("d", TRUE)>>})

\* Blocks that vary the names required and provided.
NameInputs ==
    Input({"TraitDeclaration"}, {U64}, {<<>>}, {<<>>}, {0},
          {TypedTraitFn("a", <<>>, U64), TypedTraitFn("b", <<>>, U64)}, MaxSurface,
          {BodyOk(Nullary("a", FALSE), 0),
           BodyOk(Nullary("b", TRUE), 0),
           BodyOk(Nullary("c", FALSE), 0),
           BodyOk([Nullary("a", FALSE) EXCEPT !.return_type = Bool], 0),
           BodyErr("a", 1)}, MaxFns,
          {<<>>, <<DefaultMethod("a", FALSE), DefaultMethod("d", FALSE)>>})

\* Blocks that vary the signatures required and provided under one name.
SignatureInputs ==
    Input({"TraitDeclaration"}, {U64, Contract, Generic("T")}, {<<>>}, {<<>>}, {0},
          {TypedTraitFn("a", <<U64>>, SelfType),
           TypedTraitFn("a", <<Generic("T")>>, U64),
           TypedTraitFn("a", <<U64, U64>>, U64),
           TypedTraitFn("a", <<>>, U64)}, 2,
          {BodyOk(TypedFunctionDeclaration("a", <<U64>>, U64, <<>>, FALSE, "impl"), 0),
           BodyOk(TypedFunctionDeclaration("a", <<Generic("U")>>, U64, <<>>, FALSE, "impl"), 0),
           BodyOk(TypedFunctionDeclaration("a", <<Bool, Bool>>, Bool, <<>>, FALSE, "impl"), 0),
           BodyOk(TypedFunctionDeclaration("a", <<SelfType, U64>>, U64, <<>>, FALSE, "impl"), 0),
           BodyOk(TypedFunctionDeclaration("a", <<>>, U64, <<>>, FALSE, "impl"), 0)}, 2,
          {<<>>})

Init ==
    /\ \/ OrchestratorInputs
       \/ NameInputs
       \/ SignatureInputs
    /\ pc = "Start"
    /\ errors = <<>>
    /\ warnings = <<>>
    /\ mode = "Unset"
    /\ type_arguments = <<>>
    /\ fi = 0
    /\ functions_buf = <<>>
    /\ function_checklist = <<>>
    /\ m_errors = <<>>
    /\ m_warnings = <<>>
    /\ trait_impls = <<>>
    /\ result = [tag |-> "Pending", value |-> NoDeclaration, warnings |-> <<>>, errors |-> <<>>]

-----------------------------------------------------------------------------
\* Actions.

inputs == <<impl_trait, type_implementing_for, lookup, checked>>

matcher == <<mode, type_arguments, fi, functions_buf, function_checklist,
             m_errors, m_warnings>>

\* The prologue of type_check_trait_implementation.
EnterMatcher(surface, targs, m) ==
    /\ mode' = m
    /\ type_arguments' = targs
    /\ fi' = 1
    /\ functions_buf' = <<>>
    /\ function_checklist' = InitialChecklist(surface)
    /\ m_errors' = <<>>
    /\ m_warnings' = <<>>
    /\ pc' = "Matching"

\* Ok { value: TypedDeclaration::TraitDeclaration(tr), .. }
LookupTrait ==
    /\ pc = "Start"
    /\ lookup.tag = "TraitDeclaration"
    /\ errors' = errors \o lookup.errors
                    \o ArityErrors(impl_trait.type_arguments, lookup.decl.type_parameters)
    /\ warnings' = warnings \o lookup.warnings
    /\ EnterMatcher(lookup.decl.interface_surface,
                    TraitTypeArguments(lookup.decl, impl_trait), "NonAbi")
    /\ UNCHANGED <<inputs, trait_impls, result>>

\* Ok { value: TypedDeclaration::AbiDeclaration(abi), .. }
LookupAbi ==
    /\ pc = "Start"
    /\ lookup.tag = "AbiDeclaration"
    /\ errors' = errors \o lookup.errors \o AbiErrors(type_implementing_for)
    /\ warnings' = warnings \o lookup.warnings
    /\ EnterMatcher(lookup.decl.interface_surface,
                    AbiTypeArguments(lookup.decl, impl_trait), "ImplAbiFn")
    /\ UNCHANGED <<inputs, trait_impls, result>>

\* A fatal lookup that returns err(warnings, errors), without a declaration.
RecoveryWithoutDeclaration(es, ws) ==
    [tag |-> "Err", value |-> NoDeclaration, warnings |-> ws, errors |-> es]

\* ok(ERROR_RECOVERY_DECLARATION.clone(), warnings, errors)
Recovery(es, ws) ==
    [tag |-> "Ok", value |-> ERROR_RECOVERY_DECLARATION, warnings |-> ws, errors |-> es]

\* Ok { value: _, .. }
LookupNotATrait ==
    /\ pc = "Start"
    /\ lookup.tag = "Other"
    /\ errors' = errors \o lookup.errors \o <<NotATrait(impl_trait.trait_name)>>
    /\ warnings' = warnings \o lookup.warnings
    /\ result' = Recovery(errors', warnings')
    /\ pc' = "ErrorRecovery"
    /\ UNCHANGED <<inputs, matcher, trait_impls>>

\* Err { .. }
LookupUnknownTrait ==
    /\ pc = "Start"
    /\ lookup.tag = "Err"
    /\ errors' = errors \o lookup.errors \o <<UnknownTrait(impl_trait.trait_name)>>
    /\ warnings' = warnings \o lookup.warnings
    /\ result' = Recovery(errors', warnings')
    /\ pc' = "ErrorRecovery"
    /\ UNCHANGED <<inputs, matcher, trait_impls>>

InLoop == pc = "Matching" /\ fi <= Len(impl_trait.functions)

\* An iteration whose failed body check ends the matcher.
BodyCheckFailsAborts ==
    /\ InLoop
    /\ ~checked[fi].ok
    /\ m_warnings' = m_warnings \o checked[fi].warnings
    /\ m_errors' = m_errors \o checked[fi].errors
    /\ pc' = "Aborted"
    /\ UNCHANGED <<inputs, errors, warnings, mode, type_arguments, fi, functions_buf,
                   function_checklist, trait_impls, result>>

\* An iteration that looks the function's name up, and removes it from the
\* checklist, before its body check fails.
BodyCheckFailsAfterRemoval ==
    /\ InLoop
    /\ ~checked[fi].ok
    /\ m_warnings' = m_warnings \o checked[fi].warnings
    /\ m_errors' = m_errors \o checked[fi].errors
    /\ function_checklist' =
          (LET ix == position(function_checklist, impl_trait.functions[fi].name)
           IN  IF ix = 0 THEN function_checklist ELSE remove(function_checklist, ix))
    /\ fi' = fi + 1
    /\ UNCHANGED <<inputs, pc, errors, warnings, mode, type_arguments, functions_buf,
                   trait_impls, result>>

\* One iteration whose body check fails: type_check!(.., continue, ..)
BodyCheckFails ==
    /\ InLoop
    /\ ~checked[fi].ok
    /\ m_warnings' = m_warnings \o checked[fi].warnings
    /\ m_errors' = m_errors \o checked[fi].errors
    /\ fi' = fi + 1
    /\ UNCHANGED <<inputs, pc, errors, warnings, mode, type_arguments, functions_buf,
                   function_checklist, trait_impls, result>>

\* An iteration that reports the function not in the checklist and goes on.
NotInChecklistContinues ==
    /\ InLoop
    /\ checked[fi].ok
    /\ position(function_checklist, checked[fi].value.name) = 0
    /\ m_warnings' = m_warnings \o checked[fi].warnings
    /\ m_errors' = m_errors \o checked[fi].errors
                      \o <<FunctionNotAPartOfInterfaceSurface(checked[fi].value)>>
    /\ fi' = fi + 1
    /\ UNCHANGED <<inputs, pc, errors, warnings, mode, type_arguments, functions_buf,
                   function_checklist, trait_impls, result>>

\* One iteration whose function is not in the checklist: return err(..)
NotInChecklist ==
    /\ InLoop
    /\ checked[fi].ok
    /\ position(function_checklist, checked[fi].value.name) = 0
    /\ m_warnings' = m_warnings \o checked[fi].warnings
    /\ m_errors' = m_errors \o checked[fi].errors
                      \o <<FunctionNotAPartOfInterfaceSurface(checked[fi].value)>>
    /\ pc' = "Aborted"
    /\ UNCHANGED <<inputs, errors, warnings, mode, type_arguments, fi, functions_buf,
                   function_checklist, trait_impls, result>>

\* One iteration whose function is in the checklist: it is removed from it,
\* gets the interface's type parameters, is cross-validated, and is pushed
\* unless the cross-validation yields Some(errors).
MatchFunction ==
    /\ InLoop
    /\ checked[fi].ok
    /\ LET ix == position(function_checklist, checked[fi].value.name)
           fn_decl == MergeTypeParameters(checked[fi].value, type_arguments)
           v == CrossValidate(lookup.decl.interface_surface, fn_decl, self_type)
       IN  /\ ix # 0
           /\ function_checklist' = remove(function_checklist, ix)
           /\ m_warnings' = m_warnings \o checked[fi].warnings
           /\ m_errors' = m_errors \o checked[fi].errors \o v.pushed \o v.l_e
           /\ functions_buf' = IF Dropped(v) THEN functions_buf
                               ELSE Append(functions_buf, fn_decl)
    /\ fi' = fi + 1
    /\ UNCHANGED <<inputs, pc, errors, warnings, mode, type_arguments, trait_impls, result>>

\* After the loop: default methods, contract-call flags, the checklist check,
\* ok(functions_buf, warnings, errors).
FinishMatcher ==
    /\ pc = "Matching"
    /\ fi > Len(impl_trait.functions)
    /\ functions_buf' = MarkContractCalls(
            AppendDefaults(functions_buf, lookup.decl.methods, type_implementing_for), mode)
    /\ m_errors' = m_errors \o ChecklistErrors(function_checklist)
    /\ pc' = "Matched"
    /\ UNCHANGED <<inputs, errors, warnings, mode, type_arguments, fi, function_checklist,
                   m_warnings, trait_impls, result>>

\* The matcher returned Ok: type_check! takes its diagnostics, the methods are
\* registered and the ImplTrait declaration is returned.
Register ==
    /\ pc = "Matched"
    /\ warnings' = warnings \o m_warnings
    /\ errors' = errors \o m_errors
    /\ trait_impls' = Append(trait_impls,
                             Registration(impl_trait.trait_name, self_type, functions_buf))
    /\ result' = [tag |-> "Ok",
                  value |-> ImplTraitDecl(impl_trait.trait_name, functions_buf,
                                          type_implementing_for),
                  warnings |-> warnings', errors |-> errors']
    /\ pc' = "Registered"
    /\ UNCHANGED <<inputs, matcher>>

\* An unwinding that returns the orchestrator's own diagnostics only.
UnwindWithoutMatcherDiagnostics ==
    /\ pc = "Aborted"
    /\ result' = [tag |-> "Err", value |-> NoDeclaration,
                  warnings |-> warnings, errors |-> errors]
    /\ pc' = "Unwound"
    /\ UNCHANGED <<inputs, matcher, trait_impls, warnings, errors>>

\* The matcher returned Err: type_check!(.., return err(warnings, errors), ..)
Unwind ==
    /\ pc = "Aborted"
    /\ warnings' = warnings \o m_warnings
    /\ errors' = errors \o m_errors
    /\ result' = [tag |-> "Err", value |-> NoDeclaration,
                  warnings |-> warnings', errors |-> errors']
    /\ pc' = "Unwound"
    /\ UNCHANGED <<inputs, matcher, trait_impls>>

Next ==
    \/ LookupTrait
    \/ LookupAbi
    \/ LookupNotATrait
    \/ LookupUnknownTrait
    \/ BodyCheckFails
    \/ NotInChecklist
    \/ MatchFunction
    \/ FinishMatcher
    \/ Register
    \/ Unwind

Spec == Init /\ [][Next]_vars

-----------------------------------------------------------------------------
\* Vocabulary of the properties.

Surface == lookup.decl.interface_surface

Provided == 1..Len(impl_trait.functions)

MatcherOk == pc \in {"Matched", "Registered"}

MatcherErr == pc \in {"Aborted", "Unwound"}

MatcherReturned == MatcherOk \/ MatcherErr

Count(seq, x) == Cardinality({i \in 1..Len(seq) : seq[i] = x})

DistinctNames(surface) ==
    \A i, j \in 1..Len(surface) : surface[i].name = surface[j].name => i = j

\* Where each method of a list comes from.
Origins(buf) == [j \in 1..Len(buf) |-> <<buf[j].origin, buf[j].ix>>]

InOutput(origin, ix) ==
    \E j \in 1..Len(functions_buf) :
        functions_buf[j].origin = origin /\ functions_buf[j].ix = ix

\* The diagnostics the matcher pushes itself, as opposed to those of the body checker.
OwnErrors(es) == SelectSeq(es, LAMBDA e : e.kind # "BodyError")

\* A provided type agrees with a required one under self-substitution.
Concrete(t, st) == SubstSelf(t, st).tag = "Resolved"

SameType(req, prov, st) ==
    \/ IsGeneric(req) /\ IsGeneric(prov)
    \/ /\ Concrete(req, st)
       /\ Concrete(prov, st)
       /\ SubstSelf(req, st) = SubstSelf(prov, st)

Matches(sig, f, st) ==
    /\ Len(f.parameters) = Len(sig.parameters)
    /\ \A k \in 1..Len(sig.parameters) : SameType(sig.parameters[k], f.parameters[k], st)
    /\ Concrete(sig.return_type, st)
    /\ f.return_type = SubstSelf(sig.return_type, st)

\* Every required name is provided exactly once, by a function that passed
\* its body check and matches the required signature(s) of its name, and the
\* block provides nothing else.
ProvidesAll ==
    /\ \A i \in Provided :
        /\ checked[i].ok
        /\ \E k \in 1..Len(Surface) : Surface[k].name = checked[i].value.name
        /\ \A k \in 1..Len(Surface) :
              Surface[k].name = checked[i].value.name
                  => Matches(Surface[k], checked[i].value, self_type)
    /\ \A k \in 1..Len(Surface) :
          Cardinality({i \in Provided : checked[i].value.name = Surface[k].name}) = 1

Complete ==
    /\ MatcherOk
    /\ function_checklist = <<>>
    /\ OwnErrors(m_errors) = <<>>
    /\ Origins(functions_buf) =
          [i \in 1..Len(impl_trait.functions) |-> <<"impl", i>>]
              \o [j \in 1..Len(lookup.decl.methods) |-> <<"trait", j>>]

-----------------------------------------------------------------------------
-----------------------------------------------------------------------------
IsSubsequence(s, t) ==
    \E f \in [1..Len(s) -> 1..Len(t)] :
        /\ \A i \in 1..Len(s) : s[i] = t[f[i]]
        /\ \A i, j \in 1..Len(s) : i < j => f[i] < f[j]

Missing(es) == OfKind(es, "MissingInterfaceSurfaceMethods")

\* C2: when the matcher finishes without aborting it has pushed exactly one
\* MissingInterfaceSurfaceMethods error if the checklist is non-empty and none
\* if it is empty; the error lists the names left in the checklist, which are
\* in the interface's declaration order.
C2_MissingMethods ==
    MatcherOk =>
        /\ Len(Missing(m_errors)) = (IF function_checklist # <<>> THEN 1 ELSE 0)
        /\ \A k \in 1..Len(Missing(m_errors)) :
              /\ Missing(m_errors)[k].missing = function_checklist
              /\ IsSubsequence(Missing(m_errors)[k].missing, Names(Surface))
        /\ pc = "Registered" => Missing(result.errors) = Missing(m_errors)

C2_Witness ==
    /\ pc = "Registered"
    /\ Names(Surface) = <<"a", "b">>
    /\ Len(impl_trait.functions) = 1
    /\ Len(Missing(result.errors)) = 1
    /\ Missing(result.errors)[1].missing = <<"b">>
    /\ InOutput("impl", 1)
    /\ functions_buf[1].name = "a"

-----------------------------------------------------------------------------
\* The i-th provided function passed its body check and its name was in the
\* checklist when its turn came: the surface requires the name more often
\* than the body-checked functions before it provide it.
OkBefore(i, name) == {h \in 1..(i - 1) : checked[h].ok /\ checked[h].value.name = name}

InChecklistAtTurn(i) ==
    Count(Names(Surface), checked[i].value.name)
        > Cardinality(OkBefore(i, checked[i].value.name))

Extraneous(i) == checked[i].ok /\ ~InChecklistAtTurn(i)

NotInSurfaceErrors(es) == OfKind(es, "FunctionNotAPartOfInterfaceSurface")

\* C3: a body-checked function whose name is not in the checklist makes the
\* matcher push one FunctionNotAPartOfInterfaceSurface error naming it and
\* abort at once: nothing after it is processed, no default method is
\* appended, no MissingInterfaceSurfaceMethods error is pushed, no buffered
\* method reaches the outcome and nothing is registered.
C3_Extraneous ==
    /\ (pc = "Matching" \/ MatcherOk) =>
          /\ \A i \in Provided : i < fi => ~Extraneous(i)
          /\ NotInSurfaceErrors(m_errors) = <<>>
    /\ MatcherErr =>
          /\ fi \in Provided
          /\ Extraneous(fi)
          /\ \A i \in Provided : i < fi => ~Extraneous(i)
          /\ NotInSurfaceErrors(m_errors)
                = <<FunctionNotAPartOfInterfaceSurface(checked[fi].value)>>
          /\ m_errors[Len(m_errors)].kind = "FunctionNotAPartOfInterfaceSurface"
          /\ \A k \in 1..Len(m_errors) : m_errors[k].span[1] <= fi
          /\ \A k \in 1..Len(m_warnings) : m_warnings[k].span[1] <= fi
          /\ \A j \in 1..Len(functions_buf) :
                functions_buf[j].origin = "impl" /\ functions_buf[j].ix < fi
          /\ Missing(m_errors) = <<>>
          /\ trait_impls = <<>>
          /\ pc = "Unwound" =>
                /\ result.value.methods = <<>>
                /\ result.value.tag # "ImplTrait"
                /\ Missing(result.errors) = <<>>
                /\ Len(NotInSurfaceErrors(result.errors)) = 1

C3_Witness ==
    /\ pc = "Unwound"
    /\ fi = 2
    /\ Len(impl_trait.functions) > fi
    /\ checked[fi].value.name = "c"
    /\ functions_buf # <<>>
    /\ Len(lookup.decl.methods) > 0
    /\ function_checklist # <<>>

-----------------------------------------------------------------------------
\* C4 (as stated): after the matcher aborted, implementation_of_trait returns
\* the fixed error-recovery declaration together with the accumulated
\* warnings and errors.
C4_Original ==
    pc = "Unwound" =>
        /\ result.tag = "Ok"
        /\ result.value = ERROR_RECOVERY_DECLARATION
        /\ result.warnings = warnings
        /\ result.errors = errors

-----------------------------------------------------------------------------
\* What the cross-validation of the i-th provided function records.
Recorded(i) ==
    LET v == CrossValidate(Surface, MergeTypeParameters(checked[i].value, type_arguments),
                           self_type)
    IN  v.pushed \o v.l_e

\* C5 (as stated): a matched function for which the cross-validation records
\* any error (parameter count, parameter type, return type) is absent from
\* the output, and the loop goes on to the next function.
C5_Original ==
    (pc = "Matching" \/ MatcherOk) =>
        \A i \in Provided :
            (i < fi /\ checked[i].ok /\ Recorded(i) # <<>>) => ~InOutput("impl", i)

-----------------------------------------------------------------------------
\* C6 (as stated): the matcher aborts only on a body-checked function whose
\* name does not occur in the interface's required-signature list.
C6_Original ==
    MatcherErr => Count(Names(Surface), checked[fi].value.name) = 0

-----------------------------------------------------------------------------
MatcherNeverRan ==
    /\ mode = "Unset"
    /\ fi = 0
    /\ functions_buf = <<>>
    /\ function_checklist = <<>>
    /\ m_errors = <<>>
    /\ m_warnings = <<>>

\* C7: when the lookup yields a declaration that is neither a trait nor an
\* ABI, or fails, implementation_of_trait returns Ok with the error-recovery
\* declaration, the lookup's diagnostics followed by exactly one NotATrait
\* (found other) or UnknownTrait (not found) error; the matcher never runs
\* and nothing is registered.
C7_FatalLookup ==
    /\ ~IsInterface(lookup.tag) =>
          /\ pc \in {"Start", "ErrorRecovery"}
          /\ MatcherNeverRan
          /\ trait_impls = <<>>
          /\ pc = "ErrorRecovery" =>
                /\ result.tag = "Ok"
                /\ result.value = ERROR_RECOVERY_DECLARATION
                /\ result.warnings = lookup.warnings
                /\ result.errors = lookup.errors \o
                      <<IF lookup.tag = "Other" THEN NotATrait(impl_trait.trait_name)
                        ELSE UnknownTrait(impl_trait.trait_name)>>
    /\ IsInterface(lookup.tag) =>
          /\ pc # "ErrorRecovery"
          /\ OfKind(errors, "NotATrait") = <<>>
          /\ OfKind(errors, "UnknownTrait") = <<>>

C7_Witness ==
    /\ pc = "ErrorRecovery"
    /\ lookup.tag = "Other"
    /\ lookup.errors # <<>>
    /\ Len(impl_trait.functions) > 0
    /\ result.errors[Len(result.errors)].kind = "NotATrait"

-----------------------------------------------------------------------------
\* C8: insert_trait_implementation is called at most once per block, when and
\* only when the matcher finished in Matched (with or without accumulated
\* errors), never after an abort or a fatal lookup; it is keyed by the block's
\* interface name and the resolved implementing type, and registers the very
\* method list of the returned ImplTrait declaration, which is the matcher's
\* finished output.
C8_Registration ==
    /\ Len(trait_impls) <= 1
    /\ trait_impls # <<>> <=> pc = "Registered"
    /\ pc \in {"Unwound", "ErrorRecovery", "Aborted"} => trait_impls = <<>>
    /\ pc = "Matched" => ENABLED Register
    /\ pc = "Registered" =>
          /\ result.tag = "Ok"
          /\ result.value.tag = "ImplTrait"
          /\ result.value.trait_name = impl_trait.trait_name
          /\ result.value.type_implementing_for = type_implementing_for
          /\ result.value.methods = functions_buf
          /\ trait_impls[1].trait_name = impl_trait.trait_name
          /\ trait_impls[1].ty = type_implementing_for
          /\ trait_impls[1].methods = result.value.methods
          /\ Len(functions_buf) >= Len(lookup.decl.methods)

C8_Witness ==
    /\ pc = "Registered"
    /\ result.errors # <<>>
    /\ Len(trait_impls[1].methods) = 2
    /\ trait_impls[1].methods[1].origin = "impl"
    /\ trait_impls[1].methods[2].origin = "trait"

-----------------------------------------------------------------------------
\* The is_contract_call flag a method of the output had before the matcher:
\* the body checker's for a provided function, the interface's for a default.
FlagBefore(f) ==
    IF f.origin = "impl" THEN checked[f.ix].value.is_contract_call
    ELSE lookup.decl.methods[f.ix].is_contract_call

\* C9: in the ABI branch exactly one ImplAbiForNonContract error is pushed
\* when the implementing type is not Resolved(Contract) and none when it is
\* (none in the other branches); the error does not keep the matcher from
\* running in ABI mode; when the matcher finishes in ABI mode every output
\* method is a contract call, and in trait mode every output method keeps the
\* flag it had.
C9_AbiContract ==
    /\ Len(OfKind(errors, "ImplAbiForNonContract"))
          = (IF pc # "Start" /\ lookup.tag = "AbiDeclaration"
                /\ type_implementing_for # Contract
             THEN 1 ELSE 0)
    /\ (pc # "Start" /\ lookup.tag = "AbiDeclaration") =>
          /\ mode = "ImplAbiFn"
          /\ pc \in {"Matching", "Matched", "Aborted", "Registered", "Unwound"}
    /\ mode = "ImplAbiFn" => lookup.tag = "AbiDeclaration"
    /\ MatcherOk =>
          \A j \in 1..Len(functions_buf) :
              functions_buf[j].is_contract_call
                  = (IF mode = "ImplAbiFn" THEN TRUE ELSE FlagBefore(functions_buf[j]))

C9_Witness ==
    /\ pc = "Registered"
    /\ mode = "ImplAbiFn"
    /\ type_implementing_for = U64
    /\ Len(OfKind(result.errors, "ImplAbiForNonContract")) = 1
    /\ Len(functions_buf) = 2
    /\ functions_buf[1].origin = "impl" /\ ~FlagBefore(functions_buf[1])
    /\ functions_buf[2].origin = "trait" /\ ~FlagBefore(functions_buf[2])
    /\ result.value.methods[1].is_contract_call
    /\ result.value.methods[2].is_contract_call

-----------------------------------------------------------------------------
\* C10: in the trait branch exactly one IncorrectNumberOfTypeArguments error,
\* with the supplied and the declared count, is pushed when the counts differ
\* and none when they agree; the matcher runs all the same, and every provided
\* function of its output has the interface's declared type parameters
\* appended after its own. In the ABI branch no such error is pushed and
\* nothing is merged.
C10_TypeArgumentArity ==
    /\ OfKind(errors, "IncorrectNumberOfTypeArguments")
          = (IF /\ pc # "Start"
                /\ lookup.tag = "TraitDeclaration"
                /\ Len(impl_trait.type_arguments) # Len(lookup.decl.type_parameters)
             THEN <<IncorrectNumberOfTypeArguments(Len(impl_trait.type_arguments),
                                                   Len(lookup.decl.type_parameters))>>
             ELSE <<>>)
    /\ (pc # "Start" /\ lookup.tag = "TraitDeclaration") =>
          /\ mode = "NonAbi"
          /\ pc \in {"Matching", "Matched", "Aborted", "Registered", "Unwound"}
    /\ \A j \in 1..Len(functions_buf) :
          functions_buf[j].origin = "impl" =>
              functions_buf[j].type_parameters
                  = checked[functions_buf[j].ix].value.type_parameters
                      \o (IF mode = "NonAbi" THEN lookup.decl.type_parameters ELSE <<>>)

C10_Witness ==
    /\ pc = "Registered"
    /\ lookup.tag = "TraitDeclaration"
    /\ Len(impl_trait.type_arguments) = 1
    /\ Len(lookup.decl.type_parameters) = 2
    /\ Len(OfKind(result.errors, "IncorrectNumberOfTypeArguments")) = 1
    /\ functions_buf # <<>>
    /\ result.value.methods[1].type_parameters = <<"F", "P", "Q">>

-----------------------------------------------------------------------------
\* The i-th provided function was matched: it passed its body check, its name
\* was in the checklist at its turn, and the loop has gone past it.
Matched(i) == i < fi /\ checked[i].ok /\ InChecklistAtTurn(i)

RequiredOnce(name) == Count(Names(Surface), name) = 1

\* The required signature of a name the surface requires once.
SignatureOf(name) ==
    Surface[CHOOSE k \in 1..Len(Surface) : Surface[k].name = name]

MinLen(s, t) == IF Len(s) <= Len(t) THEN Len(s) ELSE Len(t)

\* The parameter positions the required and the provided signature share.
Positions(i) ==
    1..MinLen(SignatureOf(checked[i].value.name).parameters, checked[i].value.parameters)

\* The positions the comparison reaches: those before which no position erred.
ComparedPositions(i) ==
    LET sig == SignatureOf(checked[i].value.name)
        f == checked[i].value
    IN  {k \in Positions(i) :
            \A j \in 1..(k - 1) :
                ParamErrors(sig.parameters[j], f.parameters[j], self_type, i, j) = <<>>}

ErrorsAt(es, i, k) == SelectSeq(es, LAMBDA e : e.span = <<i, k>>)

MismatchAt(i, k) == OfKind(ErrorsAt(m_errors, i, k), "MismatchedTypeInTrait") # <<>>

\* C11 (as stated): at each compared parameter position of a matched function
\* (of a name required once), a generic required type against a concrete
\* provided one, or a generic provided type against a concrete required one,
\* is reported as MismatchedTypeInTrait and the function is dropped; two
\* generic types raise no error at that position, whatever their names.
C11_Original ==
    (pc = "Matching" \/ MatcherOk) =>
        \A i \in Provided :
            (Matched(i) /\ RequiredOnce(checked[i].value.name)) =>
                \A k \in ComparedPositions(i) :
                    LET req == SignatureOf(checked[i].value.name).parameters[k]
                        prov == checked[i].value.parameters[k]
                    IN  /\ (IsGeneric(req) # IsGeneric(prov)) =>
                              /\ MismatchAt(i, k)
                              /\ ~InOutput("impl", i)
                        /\ (IsGeneric(req) /\ IsGeneric(prov)) =>
                              ErrorsAt(m_errors, i, k) = <<>>

-----------------------------------------------------------------------------
\* The diagnostics of the body check of the i-th function found in a list.
BodyDiagnostics(ds, i) ==
    SelectSeq(ds, LAMBDA d : d.kind \in {"BodyError", "BodyWarning"} /\ d.span[1] = i)

FailedBefore(k) == {i \in Provided : i < k /\ ~checked[i].ok}

\* C12: a function whose body check fails has all the warnings and errors of
\* that check appended to the matcher's lists and is not added to the output;
\* the loop goes on with the next function. A failed body check never aborts
\* the matcher: the abort is always on a body-checked function, and a matcher
\* that met only failed body checks processes every function, appends the
\* default methods and finishes Matched.
C12_BodyCheckFailure ==
    /\ \A i \in Provided :
          ~checked[i].ok =>
              /\ ~InOutput("impl", i)
              /\ (pc = "Matching" \/ MatcherReturned) =>
                    /\ BodyDiagnostics(m_errors, i)
                          = (IF i < fi THEN checked[i].errors ELSE <<>>)
                    /\ BodyDiagnostics(m_warnings, i)
                          = (IF i < fi THEN checked[i].warnings ELSE <<>>)
    /\ MatcherErr => checked[fi].ok
    /\ MatcherOk => fi = Len(impl_trait.functions) + 1
    /\ (MatcherReturned /\ \A i \in Provided : ~checked[i].ok) =>
          /\ MatcherOk
          /\ Origins(functions_buf) = [j \in 1..Len(lookup.decl.methods) |-> <<"trait", j>>]
    /\ pc = "Registered" =>
          \A i \in Provided :
              ~checked[i].ok =>
                  /\ BodyDiagnostics(result.errors, i) = checked[i].errors
                  /\ BodyDiagnostics(result.warnings, i) = checked[i].warnings

C12_Witness ==
    /\ pc = "Registered"
    /\ Len(impl_trait.functions) = 3
    /\ ~checked[1].ok /\ checked[1].errors # <<>> /\ checked[1].warnings # <<>>
    /\ checked[2].ok /\ InOutput("impl", 2)
    /\ ~checked[3].ok
    /\ Len(lookup.decl.methods) > 0
    /\ Len(functions_buf) = 1 + Len(lookup.decl.methods)
    /\ BodyDiagnostics(result.errors, 1) = checked[1].errors
    /\ BodyDiagnostics(result.errors, 3) = checked[3].errors

-----------------------------------------------------------------------------
\* The type a default method's declared type t stands for in an
\* implementation for the type T.
ForImplementor(t, T) == IF t = SelfType THEN T ELSE t

\* C13: every default method of the finished output is the interface's
\* method with each Self of its parameters and return type replaced by the
\* resolved implementing type T (a declared return type Self has become
\* exactly T) and every other type kept; no Self remains in its signature,
\* and substituting T for Self once more leaves it unchanged.
C13_SelfSubstitution ==
    MatcherOk =>
        \A j \in 1..Len(functions_buf) :
            functions_buf[j].origin = "trait" =>
                LET f == functions_buf[j]
                    d == lookup.decl.methods[f.ix]
                    T == type_implementing_for
                IN  /\ f.name = d.name
                    /\ Len(f.parameters) = Len(d.parameters)
                    /\ \A k \in 1..Len(d.parameters) :
                          /\ f.parameters[k] = ForImplementor(d.parameters[k], T)
                          /\ f.parameters[k] # SelfType
                    /\ f.return_type = ForImplementor(d.return_type, T)
                    /\ f.return_type # SelfType
                    /\ replace_self_types(f, T) = f

C13_Witness ==
    /\ pc = "Registered"
    /\ type_implementing_for = Contract
    /\ Len(lookup.decl.methods) = 1
    /\ lookup.decl.methods[1].return_type = SelfType
    /\ lookup.decl.methods[1].parameters = <<SelfType>>
    /\ result.value.methods # <<>>
    /\ LET f == result.value.methods[Len(result.value.methods)]
       IN  /\ f.origin = "trait"
           /\ f.return_type = Contract
           /\ f.parameters = <<Contract>>

-----------------------------------------------------------------------------
\* Two types that are both concrete under self-substitution and differ.
Mismatch(req, prov, st) ==
    /\ Concrete(req, st)
    /\ Concrete(prov, st)
    /\ SubstSelf(req, st) # SubstSelf(prov, st)

\* Every mismatching parameter position of a matched function is reported.
EveryPositionReported ==
    \A i \in Provided :
        (Matched(i) /\ RequiredOnce(checked[i].value.name)) =>
            \A k \in Positions(i) :
                Mismatch(SignatureOf(checked[i].value.name).parameters[k],
                         checked[i].value.parameters[k], self_type)
                    => MismatchAt(i, k)

\* A mismatching return type of a matched function is reported, whatever the
\* parameters were.
ReturnTypeReported ==
    \A i \in Provided :
        (Matched(i) /\ RequiredOnce(checked[i].value.name)) =>
            (Mismatch(SignatureOf(checked[i].value.name).return_type,
                      checked[i].value.return_type, self_type)
                => MismatchAt(i, 0))

\* C14 (as stated): the cross-validation accumulates: a matched function with
\* mismatches at several parameter positions gets a MismatchedTypeInTrait
\* error for each of them, and its return type is validated and reported as
\* well, also after a count mismatch or a parameter mismatch.
C14_Original ==
    (pc = "Matching" \/ MatcherOk) => (EveryPositionReported /\ ReturnTypeReported)

-----------------------------------------------------------------------------
Elements(seq) == {seq[k] : k \in 1..Len(seq)}

\* (1) a provided function of that name is in the output.
ProvidedInOutput(name) ==
    \E j \in 1..Len(functions_buf) :
        functions_buf[j].origin = "impl" /\ functions_buf[j].name = name

\* (2) the name is listed in the MissingInterfaceSurfaceMethods error.
ListedMissing(name) ==
    \E k \in 1..Len(Missing(m_errors)) : name \in Elements(Missing(m_errors)[k].missing)

\* (3) a provided function of that name was matched, hence removed from the
\* checklist, and dropped, with at least one error reported for it.
MatchedAndDropped(name) ==
    \E i \in Provided :
        /\ Matched(i)
        /\ checked[i].value.name = name
        /\ ~InOutput("impl", i)
        /\ Recorded(i) # <<>>
        /\ Elements(Recorded(i)) \subseteq Elements(m_errors)

Situations(name) ==
    {s \in {1, 2, 3} : \/ s = 1 /\ ProvidedInOutput(name)
                       \/ s = 2 /\ ListedMissing(name)
                       \/ s = 3 /\ MatchedAndDropped(name)}

\* C15: for an interface surface with pairwise distinct required names, when
\* the matcher finishes Matched every required name is in exactly one of three
\* situations: a provided function of that name is in the output; the name is
\* listed in the MissingInterfaceSurfaceMethods error; a provided function of
\* that name was matched, removed from the checklist and dropped with at
\* least one error. So a matcher that returns without any error has an empty
\* checklist and a provided function in the output for every required name.
C15_Accounting ==
    (MatcherOk /\ DistinctNames(Surface)) =>
        /\ \A k \in 1..Len(Surface) : Cardinality(Situations(Surface[k].name)) = 1
        /\ m_errors = <<>> =>
              /\ function_checklist = <<>>
              /\ \A k \in 1..Len(Surface) : ProvidedInOutput(Surface[k].name)

C15_Witness ==
    /\ pc = "Registered"
    /\ Names(Surface) = <<"a", "b">>
    /\ Len(impl_trait.functions) = 2
    /\ ~checked[1].ok
    /\ Situations("a") = {3}
    /\ Situations("b") = {2}
    /\ Len(lookup.decl.methods) > 0

-----------------------------------------------------------------------------
\* The name of the i-th function of the block, as declared.
DeclaredName(i) == impl_trait.functions[i].name

Required(name) == name \in Elements(Names(Surface))

\* No function of the block that passed its body check has the name.
OnlyFailedProvide(name) == \A h \in Provided : checked[h].ok => checked[h].value.name # name

\* C16: a failed body check leaves the checklist and the output buffer as
\* they were: the checklist holds each required name as often as the surface
\* requires it minus the body-checked functions of that name processed so
\* far, and the buffer holds body-checked functions only. (a) When the
\* matcher finishes and only failed functions provide a required name, the
\* name is still in the checklist and listed in the
\* MissingInterfaceSurfaceMethods error, next to the diagnostics of the failed
\* body check. (b) A function that fails its body check and whose name is not
\* in the surface triggers no abort: the abort and its error are always about
\* a body-checked function.
C16_FailedBodyCheckFrame ==
    (pc = "Matching" \/ MatcherReturned) =>
        /\ \A k \in 1..Len(Surface) :
              Count(function_checklist, Surface[k].name)
                  = Count(Names(Surface), Surface[k].name)
                       - Cardinality(OkBefore(fi, Surface[k].name))
        /\ \A j \in 1..Len(functions_buf) :
              functions_buf[j].origin = "impl" => checked[functions_buf[j].ix].ok
        /\ MatcherOk =>
              \A i \in Provided :
                  (~checked[i].ok /\ Required(DeclaredName(i))
                      /\ OnlyFailedProvide(DeclaredName(i))) =>
                      /\ DeclaredName(i) \in Elements(function_checklist)
                      /\ ListedMissing(DeclaredName(i))
                      /\ BodyDiagnostics(m_errors, i) = checked[i].errors
        /\ \A k \in 1..Len(NotInSurfaceErrors(m_errors)) :
              checked[NotInSurfaceErrors(m_errors)[k].span[1]].ok
        /\ \A i \in Provided :
              (i < fi /\ ~checked[i].ok /\ ~Required(DeclaredName(i))) =>
                  \A k \in 1..Len(m_errors) :
                      m_errors[k].span[1] = i => m_errors[k].kind = "BodyError"

C16_Witness ==
    /\ pc = "Registered"
    /\ Names(Surface) = <<"a", "b">>
    /\ Len(impl_trait.functions) = 3
    /\ ~checked[1].ok /\ DeclaredName(1) = "a"
    /\ ~checked[2].ok /\ DeclaredName(2) = "a"
    /\ checked[3].ok /\ InOutput("impl", 3) /\ DeclaredName(3) = "b"
    /\ function_checklist = <<"a">>
    /\ ListedMissing("a")
    /\ BodyDiagnostics(result.errors, 1) # <<>>
    /\ BodyDiagnostics(result.errors, 2) # <<>>

-----------------------------------------------------------------------------
\* A method with the contract-call flag left aside.
Unflagged(f) == [f EXCEPT !.is_contract_call = FALSE]

\* C17: when the matcher finishes Matched, its output is a list of provided
\* functions, each of which passed its body check and had its name found in
\* and removed from the checklist, in the order of the block and none twice,
\* followed by every default method of the interface exactly once, in
\* declaration order and with Self substituted. The default methods are
\* appended whether or not errors were accumulated and whether or not a
\* provided function of the same name is in the output.
C17_OutputProvenance ==
    MatcherOk =>
        LET n == Len(functions_buf)
            m == Len(lookup.decl.methods)
        IN  /\ n >= m
            /\ \A j \in 1..(n - m) :
                  /\ functions_buf[j].origin = "impl"
                  /\ functions_buf[j].ix \in Provided
                  /\ Matched(functions_buf[j].ix)
                  /\ Unflagged(functions_buf[j])
                        = Unflagged(MergeTypeParameters(checked[functions_buf[j].ix].value,
                                                        type_arguments))
            /\ \A j, h \in 1..(n - m) : j < h => functions_buf[j].ix < functions_buf[h].ix
            /\ \A j \in 1..m :
                  /\ functions_buf[n - m + j].origin = "trait"
                  /\ functions_buf[n - m + j].ix = j
                  /\ Unflagged(functions_buf[n - m + j])
                        = Unflagged(replace_self_types(lookup.decl.methods[j],
                                                       type_implementing_for))

C17_Witness ==
    /\ pc = "Registered"
    /\ result.errors # <<>>
    /\ Len(impl_trait.functions) = 3
    /\ ~InOutput("impl", 1)
    /\ Origins(result.value.methods)
          = <<<<"impl", 2>>, <<"impl", 3>>, <<"trait", 1>>, <<"trait", 2>>>>
    /\ result.value.methods[2].name = "a"
    /\ result.value.methods[3].name = "a"

-----------------------------------------------------------------------------
\* A list without its first entry equal to the name (the list itself when it
\* has none).
RECURSIVE WithoutFirst(_, _)
WithoutFirst(list, name) ==
    IF list = <<>> THEN <<>>
    ELSE IF Head(list) = name THEN Tail(list)
    ELSE <<Head(list)>> \o WithoutFirst(Tail(list), name)

\* The required names, less one first entry for every body-checked function
\* among the first k of the block, dropped or not.
RECURSIVE ChecklistAfter(_)
ChecklistAfter(k) ==
    IF k = 0 THEN Names(Surface)
    ELSE IF checked[k].ok THEN WithoutFirst(ChecklistAfter(k - 1), checked[k].value.name)
    ELSE ChecklistAfter(k - 1)

OkProcessed == {i \in Provided : i < fi /\ checked[i].ok}

\* C18: the checklist starts as the required names in declaration order and
\* is at every step an order-preserving subsequence of them; nothing is ever
\* added; a processed function removes no entry when its body check failed
\* and otherwise exactly one, the first entry equal to its name; the removal
\* stands when the cross-validation drops the function.
C18_Checklist ==
    (pc = "Matching" \/ MatcherReturned) =>
        /\ fi = 1 => function_checklist = Names(Surface)
        /\ IsSubsequence(function_checklist, Names(Surface))
        /\ Len(function_checklist) = Len(Surface) - Cardinality(OkProcessed)
        /\ function_checklist = ChecklistAfter(fi - 1)
        /\ \A i \in OkProcessed :
              Count(function_checklist, checked[i].value.name)
                  < Count(Names(Surface), checked[i].value.name)

C18_Witness ==
    /\ pc = "Registered"
    /\ Names(Surface) = <<"a", "b", "a">>
    /\ Len(impl_trait.functions) = 2
    /\ ~checked[1].ok /\ DeclaredName(1) = "a"
    /\ checked[2].ok /\ checked[2].value.name = "a" /\ ~InOutput("impl", 2)
    /\ function_checklist = <<"b", "a">>

-----------------------------------------------------------------------------
\* The error the orchestrator pushes itself before it calls the matcher.
OrchestratorError ==
    IF lookup.tag = "TraitDeclaration"
           /\ Len(impl_trait.type_arguments) # Len(lookup.decl.type_parameters)
    THEN <<IncorrectNumberOfTypeArguments(Len(impl_trait.type_arguments),
                                          Len(lookup.decl.type_parameters))>>
    ELSE IF lookup.tag = "AbiDeclaration" /\ type_implementing_for # Contract
    THEN <<ImplAbiForNonContract(friendly_type_str(type_implementing_for))>>
    ELSE <<>>

\* The diagnostics the first k functions of the block give rise to, in the
\* order of the block: those of the body check, then those of the matcher.
RECURSIVE ErrorsThrough(_)
ErrorsThrough(k) ==
    IF k = 0 THEN <<>>
    ELSE ErrorsThrough(k - 1) \o checked[k].errors \o
         (IF ~checked[k].ok THEN <<>>
          ELSE IF InChecklistAtTurn(k) THEN Recorded(k)
          ELSE <<FunctionNotAPartOfInterfaceSurface(checked[k].value)>>)

RECURSIVE WarningsThrough(_)
WarningsThrough(k) ==
    IF k = 0 THEN <<>> ELSE WarningsThrough(k - 1) \o checked[k].warnings

\* The functions the matcher has gone through, the aborting one included.
Through == IF MatcherErr THEN fi ELSE fi - 1

\* C19: no diagnostic is lost. While the matcher runs and after it returned,
\* the orchestrator's lists are the lookup's diagnostics followed by its own
\* arity or ABI error if any, and the matcher's lists are the diagnostics of
\* every function processed so far, in order (so they only grow), followed at
\* the end by the MissingInterfaceSurfaceMethods error if any. The returned
\* lists are the orchestrator's followed by the matcher's, on the abort path
\* too: everything accumulated before the abort is returned together with the
\* FunctionNotAPartOfInterfaceSurface error.
C19_NoDiagnosticLost ==
    (pc = "Matching" \/ MatcherReturned) =>
        /\ m_errors = ErrorsThrough(Through) \o Missing(m_errors)
        /\ m_warnings = WarningsThrough(Through)
        /\ pc \in {"Matching", "Matched", "Aborted"} =>
              /\ errors = lookup.errors \o OrchestratorError
              /\ warnings = lookup.warnings
        /\ pc \in {"Registered", "Unwound"} =>
              /\ result.errors = lookup.errors \o OrchestratorError \o m_errors
              /\ result.warnings = lookup.warnings \o m_warnings
        /\ pc = "Unwound" =>
              result.errors = lookup.errors \o OrchestratorError \o ErrorsThrough(fi - 1)
                                \o checked[fi].errors
                                \o <<FunctionNotAPartOfInterfaceSurface(checked[fi].value)>>

C19_Witness ==
    /\ pc = "Unwound"
    /\ lookup.errors # <<>>
    /\ lookup.warnings # <<>>
    /\ OrchestratorError # <<>>
    /\ fi = 2
    /\ ~checked[1].ok
    /\ checked[2].errors # <<>>
    /\ Len(result.errors) = Len(lookup.errors) + 1 + Len(checked[1].errors)
                               + Len(checked[2].errors) + 1
    /\ result.errors[Len(result.errors)].kind = "FunctionNotAPartOfInterfaceSurface"
    /\ Len(result.warnings) = Len(lookup.warnings) + Len(checked[1].warnings)
                                 + Len(checked[2].warnings)

====
